---- MODULE Spec2Model ----
(***************************************************************************)
(* Model of the scene builder of marcpabst/renderer: gradient stop         *)
(* generation (brushes.rs), the image-geometry constructor (geoms.rs) and, *)
(* from vello_backend.rs, the upload of images to the GPU, the conversions *)
(* into the vello types, text layout and the lowering of drawables and     *)
(* layers into the vello command stream.                                   *)
(*                                                                         *)
(* Floating point values are modelled as exact fractions <<n, d>> in       *)
(* lowest terms with d > 0; the IEEE special values are <<0, 0>> (NaN),    *)
(* <<1, 0>> (+inf) and <<-1, 0>> (-inf).  Rounding is abstracted away.     *)
(***************************************************************************)
EXTENDS Integers, Sequences, FiniteSets, TLC

VARIABLES
    gradIn,     \* arguments of a Gradient::new_equidistant call
    gradOut,    \* outcome of that call
    imgIn,      \* arguments of a Geom::new_image call
    imgOut,     \* outcome of that call
    images,     \* the application's images, by identity
    device,     \* the textures the wgpu device has created, in creation order
    scene,      \* the Scene<VelloBackend> being built
    status,     \* "building" | "panicked" | "rendered" ("idle": no scene)
    prevScene,  \* the scene as it was when the most recent call was made
    lastCall,   \* the most recent call made on the scene, with its arguments
    ncalls      \* number of calls made on the scene so far

vars == <<gradIn, gradOut, imgIn, imgOut, images, device, scene, status, prevScene, lastCall, ncalls>>

(***************************************************************************)
(* Bounds of the model.                                                    *)
(***************************************************************************)
MaxColors == 4
MaxImgDim == 2
MaxCalls == 3
MaxUploads == 3
MaxTextLen == 3
MaxStops == 3

(***************************************************************************)
(* f32 / f64 arithmetic on fractions.                                      *)
(***************************************************************************)
Abs(n) == IF n < 0 THEN -n ELSE n

Sign(n) == IF n < 0 THEN -1 ELSE IF n > 0 THEN 1 ELSE 0

RECURSIVE GCD(_, _)
GCD(a, b) == IF b = 0 THEN a ELSE GCD(b, a % b)

\* The fraction n/d in canonical form; a zero denominator gives the IEEE
\* result of the division (0/0 = NaN, n/0 = +-inf).
Frac(n, d) ==
    IF d = 0 THEN <<Sign(n), 0>>
    ELSE LET g == GCD(Abs(n), Abs(d))
             s == Sign(d)
         IN  <<(s * n) \div g, (s * d) \div g>>

R(n) == <<n, 1>>

NaN == <<0, 0>>

IsFinite(a) == a[2] # 0

RAdd(a, b) ==
    IF IsFinite(a) /\ IsFinite(b) THEN Frac(a[1] * b[2] + b[1] * a[2], a[2] * b[2])
    ELSE IF ~IsFinite(a) /\ ~IsFinite(b)
         THEN (IF a = b THEN a ELSE NaN)
         ELSE (IF IsFinite(a) THEN b ELSE a)

RNeg(a) == <<-a[1], a[2]>>

RSub(a, b) == RAdd(a, RNeg(b))

RMul(a, b) ==
    IF IsFinite(a) /\ IsFinite(b) THEN Frac(a[1] * b[1], a[2] * b[2])
    ELSE <<Sign(a[1]) * Sign(b[1]), 0>>

RDiv(a, b) ==
    IF IsFinite(a) /\ IsFinite(b) THEN Frac(a[1] * b[2], a[2] * b[1])
    ELSE IF ~IsFinite(a) /\ ~IsFinite(b) THEN NaN
    ELSE IF IsFinite(a) THEN (IF b = NaN THEN NaN ELSE R(0))
    ELSE <<a[1] * (IF b[1] < 0 THEN -1 ELSE 1), 0>>

\* a < b; every comparison with NaN is false.
RLess(a, b) ==
    /\ a # NaN
    /\ b # NaN
    /\ IF IsFinite(a) /\ IsFinite(b) THEN a[1] * b[2] < b[1] * a[2]
       ELSE IF IsFinite(a) THEN b[1] > 0
       ELSE IF IsFinite(b) THEN a[1] < 0
       ELSE a[1] < b[1]

(***************************************************************************)
(* Affine: six coefficients [a, b, c, d, e, f] of the map                  *)
(*   (x, y) |-> (a x + c y + e, b x + d y + f).                            *)
(* A * B applies B first and A last.                                       *)
(***************************************************************************)
AffineIdentity == <<R(1), R(0), R(0), R(1), R(0), R(0)>>

AffineTranslate(dx, dy) == <<R(1), R(0), R(0), R(1), dx, dy>>

AffineScaleXY(sx, sy) == <<sx, R(0), R(0), sy, R(0), R(0)>>

AffineMul(A, B) ==
    << RAdd(RMul(A[1], B[1]), RMul(A[3], B[2])),
       RAdd(RMul(A[2], B[1]), RMul(A[4], B[2])),
       RAdd(RMul(A[1], B[3]), RMul(A[3], B[4])),
       RAdd(RMul(A[2], B[3]), RMul(A[4], B[4])),
       RAdd(RAdd(RMul(A[1], B[5]), RMul(A[3], B[6])), A[5]),
       RAdd(RAdd(RMul(A[2], B[5]), RMul(A[4], B[6])), A[6]) >>

\* The image of point p under A.
AffineApply(A, p) ==
    [x |-> RAdd(RAdd(RMul(A[1], p.x), RMul(A[3], p.y)), A[5]),
     y |-> RAdd(RAdd(RMul(A[2], p.x), RMul(A[4], p.y)), A[6])]

None == [some |-> FALSE]

Some(v) == [some |-> TRUE, value |-> v]

Point(x, y) == [x |-> x, y |-> y]

(***************************************************************************)
(* brushes.rs                                                              *)
(***************************************************************************)
RGBA(r, g, b, a) == [r |-> r, g |-> g, b |-> b, a |-> a]

Red == RGBA(R(1), R(0), R(0), R(1))

Green == RGBA(R(0), R(1), R(0), R(1))

Clear == RGBA(R(0), R(0), R(0), R(0))

Colors == {Red, Green, Clear}

Extends == {"Pad", "Repeat", "Reflect"}

LinearKind == [kind |-> "Linear", start |-> Point(R(0), R(0)), end |-> Point(R(100), R(0))]

SeqsUpTo(S, n) == UNION {[1..k -> S] : k \in 0..n}

\* A plausible slip: dividing by the number of colors instead of N - 1.
new_equidistant_divN(extend, kind, colors) ==
    [extend |-> extend,
     kind |-> kind,
     stops |-> [i \in 1..Len(colors) |->
                  [offset |-> RDiv(R(i - 1), R(Len(colors))),
                   color |-> colors[i]]]]

\* Gradient::new_equidistant: one stop per color; the closure runs once per
\* element (never for an empty slice) and divides in f32, so it cannot panic.
new_equidistant(extend, kind, colors) ==
    [extend |-> extend,
     kind |-> kind,
     stops |-> [i \in 1..Len(colors) |->
                  [offset |-> RDiv(R(i - 1), R(Len(colors) - 1)),
                   color |-> colors[i]]]]

(***************************************************************************)
(* geoms.rs                                                                *)
(***************************************************************************)
Rectangle(a, b) == [shape |-> "Rectangle", a |-> a, b |-> b]

FillNonZero == [style |-> "Fill", rule |-> "NonZero"]

\* The fit modes GeomTrait::new_image matches on.
FitModes == {"Original", "Fill"}

Image(width, height, gpu) ==
    [data |-> "rgba8", width |-> width, height |-> height, gpu_texture |-> gpu]

\* The brush new_image builds (geoms.rs); vello_backend.rs draws image brushes
\* that also carry an edge mode (ImageBrush below).
TextureBrush(image) == [brush |-> "Image", image |-> image]

\* A plausible slip: the corners are offset by the full width and height.
new_image_fullsize(image, x, y, width, height, transform, fit_mode) ==
    [style |-> FillNonZero,
     shape |-> Rectangle(Point(RSub(x, width), RSub(y, height)),
                         Point(RAdd(x, width), RAdd(y, height))),
     brush |-> TextureBrush(image),
     transform |-> transform,
     brush_transform |->
        IF fit_mode = "Original" THEN None
        ELSE Some(AffineMul(AffineScaleXY(RDiv(width, R(image.width)),
                                          RDiv(height, R(image.height))),
                            AffineTranslate(RSub(x, RDiv(width, R(2))),
                                            RSub(y, RDiv(height, R(2))))))]

\* GeomTrait::new_image.
new_image(image, x, y, width, height, transform, fit_mode) ==
    [style |-> FillNonZero,
     shape |-> Rectangle(Point(RSub(x, RDiv(width, R(2))), RSub(y, RDiv(height, R(2)))),
                         Point(RAdd(x, RDiv(width, R(2))), RAdd(y, RDiv(height, R(2))))),
     brush |-> TextureBrush(image),
     transform |-> transform,
     brush_transform |->
        IF fit_mode = "Original" THEN None
        ELSE Some(AffineMul(AffineScaleXY(RDiv(width, R(image.width)),
                                          RDiv(height, R(image.height))),
                            AffineTranslate(RSub(x, RDiv(width, R(2))),
                                            RSub(y, RDiv(height, R(2))))))]

(***************************************************************************)
(* vello_backend.rs: images and their textures on the GPU.  A texture is   *)
(* known by its handle, its position in the list of textures the device    *)
(* has created.                                                            *)
(***************************************************************************)
\* Image::new: the pixel data of a decoded image, not yet on the GPU.
Image_new(width, height) == Image(width, height, None)

\* Image::to_gpu: device.create_texture, queue.write_texture, and the new
\* texture attached to the image.
to_gpu(image, dev) ==
    LET wgpu_texture == [width |-> image.width, height |-> image.height,
                         format |-> "Rgba8Unorm", data |-> image.data]
    IN  [image |-> [image EXCEPT !.gpu_texture = Some(Len(dev) + 1)],
         device |-> Append(dev, wgpu_texture)]

(***************************************************************************)
(* vello_backend.rs: conversions into the vello types.                     *)
(***************************************************************************)
\* peniko's Color::rgba stores a channel in 8 bits:
\* (v.max(0.0).min(1.0) * 255.0).round() as u8.
Channel8(v) ==
    IF v = NaN \/ RLess(v, R(0)) THEN 0
    ELSE IF RLess(R(1), v) THEN 255
    ELSE (2 * 255 * v[1] + v[2]) \div (2 * v[2])

\* From<RGBA> for peniko::Color: each f32 channel becomes an 8-bit channel.
ColorToVello(c) ==
    [r |-> Channel8(c.r), g |-> Channel8(c.g), b |-> Channel8(c.b), a |-> Channel8(c.a)]

FillToVello(rule) ==
    CASE rule = "NonZero" -> [fill |-> "Fill::NonZero"]
      [] rule = "EvenOdd" -> [fill |-> "Fill::EvenOdd"]

MixToVello(mode) ==
    CASE mode = "Normal" -> "Mix::Normal"
      [] mode = "Clip" -> "Mix::Clip"
      [] mode = "Multiply" -> "Mix::Multiply"

ComposeToVello(mode) ==
    CASE mode = "SourceIn" -> "Compose::SrcIn"
      [] mode = "SourceOut" -> "Compose::SrcOut"
      [] mode = "SourceOver" -> "Compose::SrcOver"
      [] mode = "DestinationOver" -> "Compose::DestOver"
      [] mode = "DestinationIn" -> "Compose::DestIn"
      [] mode = "DestinationOut" -> "Compose::DestOut"
      [] mode = "DestinationAtop" -> "Compose::DestAtop"
      [] mode = "Xor" -> "Compose::Xor"
      [] mode = "SourceAtop" -> "Compose::SrcAtop"
      [] mode = "Lighter" -> "Compose::PlusLighter"
      [] mode = "Copy" -> "Compose::Copy"

ExtendToVello(extend) ==
    CASE extend = "Pad" -> "Extend::Pad"
      [] extend = "Repeat" -> "Extend::Repeat"
      [] extend = "Reflect" -> "Extend::Reflect"

ColorStopToVello(stop) == [offset |-> stop.offset, color |-> ColorToVello(stop.color)]

\* From<GradientKind> for peniko::GradientKind.
KindToVello(kind) ==
    CASE kind.kind = "Linear" ->
            [kind |-> "GradientKind::Linear", start |-> kind.start, end |-> kind.end]
      [] kind.kind = "Radial" ->
            [kind |-> "GradientKind::Radial",
             start_center |-> kind.start_center, start_radius |-> kind.start_radius,
             end_center |-> kind.end_center, end_radius |-> kind.end_radius]
      [] kind.kind = "Sweep" ->
            [kind |-> "GradientKind::Sweep", center |-> kind.center,
             start_angle |-> kind.start_angle, end_angle |-> kind.end_angle]

\* A plausible slip: offsets are clamped to [0, 1] on the way to the backend.
GradientToVello_clamped(gradient) ==
    [kind |-> KindToVello(gradient.kind),
     stops |-> [i \in 1..Len(gradient.stops) |->
                  [offset |-> IF RLess(R(1), gradient.stops[i].offset) THEN R(1)
                              ELSE gradient.stops[i].offset,
                   color |-> ColorToVello(gradient.stops[i].color)]],
     extend |-> ExtendToVello(gradient.extend)]

\* From<Gradient> for peniko::Gradient.
GradientToVello(gradient) ==
    [kind |-> KindToVello(gradient.kind),
     stops |-> [i \in 1..Len(gradient.stops) |-> ColorStopToVello(gradient.stops[i])],
     extend |-> ExtendToVello(gradient.extend)]

\* From<StrokeOptions> for kurbo::Stroke: the width, every other field the
\* kurbo default.
StrokeToVello(style) ==
    [width |-> style.width, join |-> "Round", miter_limit |-> R(4),
     start_cap |-> "Round", end_cap |-> "Round", dash_pattern |-> <<>>,
     dash_offset |-> R(0)]

ImageBrush(image, edge_mode) == [brush |-> "Image", image |-> image, edge_mode |-> edge_mode]

SolidBrush(rgba) == [brush |-> "Solid", color |-> rgba]

GradientBrush(gradient) == [brush |-> "Gradient", gradient |-> gradient]

as_brush_or_brushref(brush) ==
    CASE brush.brush = "Image" ->
            [brush |-> "Image",
             image |-> [data |-> brush.image.data, format |-> "Rgba8",
                        width |-> brush.image.width, height |-> brush.image.height,
                        extend |-> ExtendToVello(brush.edge_mode)]]
      [] brush.brush = "Solid" -> [brush |-> "Solid", color |-> ColorToVello(brush.color)]
      [] brush.brush = "Gradient" ->
            [brush |-> "Gradient", gradient |-> GradientToVello(brush.gradient)]

(***************************************************************************)
(* The vello scene: the encoded command stream and the number of layers    *)
(* that are open.  vello's Encoding ignores an end-clip when no clip is    *)
(* open.                                                                   *)
(***************************************************************************)
\* A plausible slip: a command is put in front of the stream.
Emit_in_front(vs, cmd) == [vs EXCEPT !.encoding = <<cmd>> \o @]

Emit(vs, cmd) == [vs EXCEPT !.encoding = Append(@, cmd)]

push_layer(vs, blend, alpha, transform, clip) ==
    [encoding |-> Append(vs.encoding,
                         [op |-> "push_layer", blend |-> blend, alpha |-> alpha,
                          transform |-> transform, clip |-> clip]),
     n_open_clips |-> vs.n_open_clips + 1]

pop_layer(vs) ==
    IF vs.n_open_clips > 0
    THEN [encoding |-> Append(vs.encoding, [op |-> "pop_layer"]),
          n_open_clips |-> vs.n_open_clips - 1]
    ELSE vs

vello_append(vs, other, transform) ==
    [encoding |-> Append(vs.encoding,
                         [op |-> "append", scene |-> other.encoding,
                          transform |-> transform]),
     n_open_clips |-> vs.n_open_clips + other.n_open_clips]

(***************************************************************************)
(* vello_backend.rs: the scene and the lowering of drawables and layers.   *)
(* Every operation yields the scene it leaves and whether it panicked.     *)
(***************************************************************************)
Ok(s) == [scene |-> s, panicked |-> FALSE]

Panic(s) == [scene |-> s, panicked |-> TRUE]

\* A plausible slip: the origin is moved by the full width and height.
VelloBackend_new_full(width, height) ==
    [vello_scene |-> [encoding |-> <<>>, n_open_clips |-> 0],
     global_transform |-> AffineTranslate(R(width), R(height)),
     gpu_images |-> <<>>]

VelloBackend_new(width, height) ==
    [vello_scene |-> [encoding |-> <<>>, n_open_clips |-> 0],
     global_transform |-> AffineTranslate(RDiv(R(width), R(2)), RDiv(R(height), R(2))),
     gpu_images |-> <<>>]

Scene_new(background_color, width, height) ==
    [background_color |-> background_color, width |-> width, height |-> height,
     backend |-> VelloBackend_new(width, height)]

\* The composed transform a Geom is drawn under.
GeomTransform(s, geom) == AffineMul(s.backend.global_transform, geom.transform)

\* A plausible slip: an image that is already in gpu_images is not added
\* again.
GeomDraw_dedup(s, geom) ==
    LET transform == GeomTransform(s, geom)
        brush_transform == geom.brush_transform
        new_brush == as_brush_or_brushref(geom.brush)
        entry == <<new_brush.image, geom.brush.image.gpu_texture.value>>
        gpu_images ==
            IF /\ geom.brush.brush = "Image"
               /\ geom.brush.image.gpu_texture.some
               /\ \A i \in 1..Len(s.backend.gpu_images) : s.backend.gpu_images[i] # entry
            THEN Append(s.backend.gpu_images, entry)
            ELSE s.backend.gpu_images
        cmd ==
            IF geom.style.style = "Fill"
            THEN [op |-> "fill", style |-> FillToVello(geom.style.rule),
                  transform |-> transform, brush |-> new_brush,
                  brush_transform |-> brush_transform, shape |-> geom.shape]
            ELSE [op |-> "stroke", style |-> StrokeToVello(geom.style),
                  transform |-> transform, brush |-> new_brush,
                  brush_transform |-> brush_transform, shape |-> geom.shape]
    IN  Ok([s EXCEPT !.backend.gpu_images = gpu_images,
                     !.backend.vello_scene = Emit(@, cmd)])

\* A plausible slip: the brush transform is made to follow the object.
GeomDraw_brush_follows(s, geom) ==
    LET transform == GeomTransform(s, geom)
        brush_transform ==
            IF geom.brush_transform.some
            THEN Some(AffineMul(geom.transform, geom.brush_transform.value))
            ELSE Some(geom.transform)
        new_brush == as_brush_or_brushref(geom.brush)
        cmd ==
            IF geom.style.style = "Fill"
            THEN [op |-> "fill", style |-> FillToVello(geom.style.rule),
                  transform |-> transform, brush |-> new_brush,
                  brush_transform |-> brush_transform, shape |-> geom.shape]
            ELSE [op |-> "stroke", style |-> StrokeToVello(geom.style),
                  transform |-> transform, brush |-> new_brush,
                  brush_transform |-> brush_transform, shape |-> geom.shape]
    IN  Ok([s EXCEPT !.backend.vello_scene = Emit(@, cmd)])

\* Drawable::draw for Geom.
GeomDraw(s, geom) ==
    LET transform == GeomTransform(s, geom)
        brush_transform == geom.brush_transform
        new_brush == as_brush_or_brushref(geom.brush)
        gpu_images ==
            IF geom.brush.brush = "Image" /\ geom.brush.image.gpu_texture.some
            THEN Append(s.backend.gpu_images,
                        <<new_brush.image, geom.brush.image.gpu_texture.value>>)
            ELSE s.backend.gpu_images
        cmd ==
            IF geom.style.style = "Fill"
            THEN [op |-> "fill", style |-> FillToVello(geom.style.rule),
                  transform |-> transform, brush |-> new_brush,
                  brush_transform |-> brush_transform, shape |-> geom.shape]
            ELSE [op |-> "stroke", style |-> StrokeToVello(geom.style),
                  transform |-> transform, brush |-> new_brush,
                  brush_transform |-> brush_transform, shape |-> geom.shape]
    IN  Ok([s EXCEPT !.backend.gpu_images = gpu_images,
                     !.backend.vello_scene = Emit(@, cmd)])

\* The composed transform of a layer's clip shape.
ClipTransform(s, clip_transform) == AffineMul(s.backend.global_transform, clip_transform)

\* A plausible slip: the todo!() for a layer transform is missing.
start_layer_no_todo(s, mix_mode, composite_mode, clip, clip_transform, layer_transform, alpha) ==
    Ok([s EXCEPT !.backend.vello_scene =
          push_layer(@, <<MixToVello(mix_mode), ComposeToVello(composite_mode)>>, alpha,
                     ClipTransform(s, clip_transform), clip)])

\* SceneTrait::start_layer.
start_layer(s, mix_mode, composite_mode, clip, clip_transform, layer_transform, alpha) ==
    IF layer_transform.some
    THEN Panic(s)
    ELSE Ok([s EXCEPT !.backend.vello_scene =
               push_layer(@, <<MixToVello(mix_mode), ComposeToVello(composite_mode)>>,
                          alpha, ClipTransform(s, clip_transform), clip)])

\* SceneTrait::end_layer.
end_layer(s) == Ok([s EXCEPT !.backend.vello_scene = pop_layer(@)])

(***************************************************************************)
(* Text.  A font is what the font collaborator answers for it: whether its *)
(* data parses, its character map, its advance widths and its metrics.     *)
(***************************************************************************)
Newline == "\n"

\* A plausible slip: a character without a mapping gets the first real glyph.
GlyphId_first(font, ch) == IF ch \in DOMAIN font.charmap THEN font.charmap[ch] ELSE 1

\* charmap.map(ch).unwrap_or_default()
GlyphId(font, ch) == IF ch \in DOMAIN font.charmap THEN font.charmap[ch] ELSE 0

\* glyph_metrics.advance_width(gid).unwrap_or_default()
AdvanceWidth(font, gid) == IF gid \in DOMAIN font.advance THEN font.advance[gid] ELSE R(0)

\* A plausible slip: the descent (a negative number) is added, not subtracted.
LineHeight_add_descent(font) == RAdd(RAdd(font.ascent, font.descent), font.leading)

\* metrics.ascent - metrics.descent + metrics.leading
LineHeight(font) == RAdd(RSub(font.ascent, font.descent), font.leading)

\* Where the pen starts: (self.x * 2.0, self.y * 2.0).
PenStart(t) == Point(RMul(t.x, R(2)), RMul(t.y, R(2)))

\* The filter_map over text.chars(): the pen after the walk and the glyphs.
RECURSIVE LayoutGlyphs(_, _, _, _, _, _)
LayoutGlyphs(font, text, i, pen_x, pen_y, glyphs) ==
    IF i > Len(text) THEN [pen_x |-> pen_x, pen_y |-> pen_y, glyphs |-> glyphs]
    ELSE IF text[i] = Newline
         THEN LayoutGlyphs(font, text, i + 1, R(0), RAdd(pen_y, LineHeight(font)), glyphs)
         ELSE LET gid == GlyphId(font, text[i])
              IN  LayoutGlyphs(font, text, i + 1, RAdd(pen_x, AdvanceWidth(font, gid)),
                               pen_y,
                               Append(glyphs, [id |-> gid, x |-> pen_x, y |-> pen_y]))

\* The walk over the text from the pen's starting position.
TextLayout(t) ==
    LayoutGlyphs(t.font, t.text, 1, PenStart(t).x, PenStart(t).y, <<>>)

\* The translation that aligns the laid out text.
TextCorrection(t) ==
    LET layout == TextLayout(t)
        text_width == layout.pen_x
        text_height == RAdd(layout.pen_y, LineHeight(t.font))
        transform_x ==
            CASE t.alignment = "Left" -> R(0)
              [] t.alignment = "Center" -> RDiv(RNeg(text_width), R(2))
              [] t.alignment = "Right" -> RNeg(text_width)
        transform_y ==
            CASE t.vertical_alignment = "Top" -> R(0)
              [] t.vertical_alignment = "Middle" -> RDiv(text_height, R(2))
              [] t.vertical_alignment = "Bottom" -> text_height
    IN  AffineTranslate(transform_x, transform_y)

\* The composed transform a text is drawn under, before alignment.
TextTransform(s, t) == AffineMul(t.transform, s.backend.global_transform)

\* vello's DrawGlyphs::draw: the glyph run is encoded unless it has no
\* glyphs.
draw_glyphs(vs, run) == IF run.glyphs = <<>> THEN vs ELSE Emit(vs, run)

\* The glyph run a text is lowered to.
GlyphRun(s, t) ==
    [op |-> "draw_glyphs", font_size |-> t.size,
     transform |-> AffineMul(TextTransform(s, t), TextCorrection(t)),
     glyph_transform |-> t.glyph_transform,
     brush |-> ColorToVello(t.color), style |-> FillToVello("NonZero"),
     glyphs |-> TextLayout(t).glyphs]

\* A plausible slip: the font is only looked at after the run is emitted.
TextDraw_late_font_check(s, t) ==
    IF ~t.font.valid
    THEN Panic([s EXCEPT !.backend.vello_scene = draw_glyphs(@, GlyphRun(s, t))])
    ELSE Ok([s EXCEPT !.backend.vello_scene = draw_glyphs(@, GlyphRun(s, t))])

\* Drawable::draw for FormatedText: vello_font_to_font_ref(font).expect(..)
\* comes before the layout and the emission.
TextDraw(s, t) ==
    IF ~t.font.valid
    THEN Panic(s)
    ELSE Ok([s EXCEPT !.backend.vello_scene = draw_glyphs(@, GlyphRun(s, t))])

\* The composed transform a pre-rendered scene is appended under.
PrerenderedTransform(s, p) == AffineMul(p.transform, s.backend.global_transform)

\* Drawable::draw for &PrerenderedScene.
PrerenderedDraw(s, p) ==
    LET transform == PrerenderedTransform(s, p)
    IN  Ok([s EXCEPT !.backend.vello_scene = vello_append(@, p.scene, Some(transform))])

(***************************************************************************)
(* Closures handed to draw_alpha_mask are lists of calls on the scene.     *)
(***************************************************************************)
CallGeom(g) == [op |-> "draw_geom", geom |-> g]

CallText(t) == [op |-> "draw_text", text |-> t]

CallPrerendered(p) == [op |-> "draw_prerendered", prerendered |-> p]

CallStartLayer(mix_mode, composite_mode, clip, clip_transform, layer_transform, alpha) ==
    [op |-> "start_layer", mix_mode |-> mix_mode, composite_mode |-> composite_mode,
     clip |-> clip, clip_transform |-> clip_transform,
     layer_transform |-> layer_transform, alpha |-> alpha]

CallEndLayer == [op |-> "end_layer"]

\* Scene::draw and the SceneTrait methods, by call.
ApplyCall(s, c) ==
    CASE c.op = "draw_geom" -> GeomDraw(s, c.geom)
      [] c.op = "draw_text" -> TextDraw(s, c.text)
      [] c.op = "draw_prerendered" -> PrerenderedDraw(s, c.prerendered)
      [] c.op = "start_layer" ->
            start_layer(s, c.mix_mode, c.composite_mode, c.clip, c.clip_transform,
                        c.layer_transform, c.alpha)
      [] c.op = "end_layer" -> end_layer(s)

\* Running a closure: the calls in order, stopping at the first panic.
RECURSIVE RunCalls(_, _)
RunCalls(s, calls) ==
    IF calls = <<>> THEN Ok(s)
    ELSE LET r == ApplyCall(s, Head(calls))
         IN  IF r.panicked THEN r ELSE RunCalls(r.scene, Tail(calls))

\* SceneTrait::draw_alpha_mask: two nested layers over the same clip, the
\* content drawn in the outer one and the mask in the inner one; a panic in
\* any step ends the call.
draw_alpha_mask(s, content_fn, mask_fn, clip, clip_transform) ==
    RunCalls(s,
             <<CallStartLayer("Normal", "SourceOver", clip, clip_transform, None, R(1))>>
             \o content_fn
             \o <<CallStartLayer("Multiply", "SourceIn", clip, clip_transform, None, R(1))>>
             \o mask_fn
             \o <<CallEndLayer, CallEndLayer>>)

(***************************************************************************)
(* Values the variables of the other specifications rest at.               *)
(***************************************************************************)
Pending == [status |-> "pending"]

Returned(v) == [status |-> "returned", value |-> v]

NoCall == [op |-> "none"]

NoScene == [background_color |-> Clear, width |-> 0, height |-> 0,
            backend |-> [vello_scene |-> [encoding |-> <<>>, n_open_clips |-> 0],
                         global_transform |-> AffineIdentity, gpu_images |-> <<>>]]

GradIdle == gradIn = NoCall /\ gradOut = Pending

ImgIdle == imgIn = NoCall /\ imgOut = Pending

GpuIdle == images = <<>> /\ device = <<>>

SceneIdle ==
    /\ scene = NoScene
    /\ prevScene = NoScene
    /\ status = "idle"
    /\ lastCall = NoCall
    /\ ncalls = 0

(***************************************************************************)
(* SpecGradient: one call of Gradient::new_equidistant on every color list *)
(* of up to MaxColors colors.                                              *)
(***************************************************************************)
GradInputs ==
    [op : {"new_equidistant"}, extend : {"Pad", "Repeat"}, kind : {LinearKind},
     colors : SeqsUpTo(Colors, MaxColors)]

InitGradient ==
    /\ gradIn \in GradInputs
    /\ gradOut = Pending
    /\ ImgIdle
    /\ GpuIdle
    /\ SceneIdle

NewEquidistantCall ==
    /\ gradIn # NoCall
    /\ gradOut = Pending
    /\ gradOut' = Returned(new_equidistant(gradIn.extend, gradIn.kind, gradIn.colors))
    /\ UNCHANGED <<gradIn, imgIn, imgOut, images, device, scene, status, prevScene, lastCall, ncalls>>

NextGradient == NewEquidistantCall

SpecGradient == InitGradient /\ [][NextGradient]_vars

(***************************************************************************)
(* SpecLower: one gradient lowered to the backend paint, for every stop    *)
(* list of up to MaxStops stops (unsorted, duplicate and out-of-range      *)
(* offsets included).                                                      *)
(***************************************************************************)
RadialKind ==
    [kind |-> "Radial", start_center |-> Point(R(0), R(0)), start_radius |-> R(1),
     end_center |-> Point(R(2), R(0)), end_radius |-> R(5)]

SweepKind ==
    [kind |-> "Sweep", center |-> Point(R(1), R(2)), start_angle |-> R(0),
     end_angle |-> Frac(3, 2)]

HalfGrey == RGBA(Frac(1, 2), Frac(1, 2), Frac(1, 2), R(1))

\* Channels in [0, 1]: 1/4 and 1/7 are no multiples of 1/255, 1/5 = 51/255
\* and 254/255 are.
Fine == RGBA(Frac(1, 4), Frac(1, 7), Frac(1, 5), Frac(254, 255))

\* Channels outside [0, 1]; RGBA has public f32 fields, so any f32 can be
\* stored in a channel.
OutOfRange == RGBA(Frac(3, 2), Frac(-1, 2), NaN, <<1, 0>>)

StopOffsets == {R(0), Frac(1, 2), Frac(3, 2)}

StopColors == {Red, HalfGrey, Fine, OutOfRange}

Stops == [offset : StopOffsets, color : StopColors]

LowerInputs ==
    [op : {"lower"},
     gradient : [extend : Extends, kind : {LinearKind, RadialKind, SweepKind},
                 stops : SeqsUpTo(Stops, MaxStops)]]

InitLower ==
    /\ gradIn \in LowerInputs
    /\ gradOut = Pending
    /\ ImgIdle
    /\ GpuIdle
    /\ SceneIdle

LowerGradientCall ==
    /\ gradIn # NoCall
    /\ gradOut = Pending
    /\ gradOut' = Returned(GradientToVello(gradIn.gradient))
    /\ UNCHANGED <<gradIn, imgIn, imgOut, images, device, scene, status, prevScene, lastCall,
                   ncalls>>

NextLower == LowerGradientCall

SpecLower == InitLower /\ [][NextLower]_vars

(***************************************************************************)
(* SpecImage: one call of Geom::new_image.                                 *)
(***************************************************************************)
Coords == {R(-1), R(0), R(2)}

TargetSizes == {R(1), R(2), R(4)}

ObjTransforms == {AffineIdentity, AffineTranslate(R(5), R(2))}

ImgInputs ==
    [op : {"new_image"},
     image : {Image(w, h, None) : w \in 1..MaxImgDim, h \in 1..MaxImgDim},
     x : Coords, y : Coords, width : TargetSizes, height : TargetSizes,
     transform : ObjTransforms, fit_mode : FitModes]

InitImage ==
    /\ imgIn \in ImgInputs
    /\ imgOut = Pending
    /\ GradIdle
    /\ GpuIdle
    /\ SceneIdle

NewImageCall ==
    /\ imgIn # NoCall
    /\ imgOut = Pending
    /\ imgOut' = Returned(new_image(imgIn.image, imgIn.x, imgIn.y, imgIn.width,
                                    imgIn.height, imgIn.transform, imgIn.fit_mode))
    /\ UNCHANGED <<gradIn, gradOut, imgIn, images, device, scene, status, prevScene, lastCall, ncalls>>

NextImage == NewImageCall

SpecImage == InitImage /\ [][NextImage]_vars

(***************************************************************************)
(* SpecGpu: the application holds images and moves any of them to the GPU, *)
(* any number of times (at most MaxUploads calls in all).                  *)
(***************************************************************************)
ImageIds == 1..2

InitGpu ==
    /\ images \in [ImageIds -> {Image_new(w, h) : w \in 1..MaxImgDim, h \in 1..MaxImgDim}]
    /\ device = <<>>
    /\ GradIdle
    /\ ImgIdle
    /\ SceneIdle

ToGpu ==
    \E id \in ImageIds :
        /\ Len(device) < MaxUploads
        /\ LET r == to_gpu(images[id], device)
           IN  /\ images' = [images EXCEPT ![id] = r.image]
               /\ device' = r.device
        /\ UNCHANGED <<gradIn, gradOut, imgIn, imgOut, scene, status, prevScene, lastCall,
                       ncalls>>

NextGpu == ToGpu

SpecGpu == InitGpu /\ [][NextGpu]_vars

(***************************************************************************)
(* Spec: building one frame.  A scene is created, calls are made on it (at *)
(* most MaxCalls), and it is handed to VelloRenderer::render_to_surface.   *)
(* A panic ends the program.                                               *)
(***************************************************************************)
Circle(radius) == [shape |-> "Circle", center |-> Point(R(0), R(0)), radius |-> radius]

UnitRect == Rectangle(Point(R(0), R(0)), Point(R(1), R(1)))

Scale2 == AffineScaleXY(R(2), R(2))

ThickStroke ==
    [style |-> "Stroke", width |-> R(3), join |-> "Miter", miter_limit |-> R(2),
     start_cap |-> "Butt", end_cap |-> "Square", dash_pattern |-> <<>>, dash_offset |-> R(0)]

Geom(style, shape, brush, transform, brush_transform) ==
    [style |-> style, shape |-> shape, brush |-> brush, transform |-> transform,
     brush_transform |-> brush_transform]

SolidFill == Geom(FillNonZero, Circle(R(10)), SolidBrush(Red), AffineIdentity, None)

GradientFill ==
    Geom([style |-> "Fill", rule |-> "EvenOdd"], UnitRect,
         GradientBrush(new_equidistant("Repeat", LinearKind, <<Red, Green>>)),
         Scale2, Some(AffineTranslate(R(1), R(0))))

SolidStroke == Geom(ThickStroke, Circle(R(10)), SolidBrush(Green), Scale2, None)

ImageGeom(style, gpu) ==
    Geom(style, UnitRect, ImageBrush(Image(2, 1, gpu), "Pad"), AffineIdentity, None)

ImageGeoms == {ImageGeom(st, gpu) : st \in {FillNonZero, ThickStroke},
                                    gpu \in {None, Some("texture")}}

Geoms == {SolidFill, GradientFill, SolidStroke} \cup ImageGeoms

GoodFont ==
    [valid |-> TRUE, charmap |-> [ch \in {"A", "B"} |-> IF ch = "A" THEN 1 ELSE 2],
     advance |-> [gid \in 0..2 |-> IF gid = 0 THEN R(5) ELSE IF gid = 1 THEN R(10) ELSE R(12)],
     ascent |-> R(8), descent |-> R(-2), leading |-> R(1)]

BrokenFont == [GoodFont EXCEPT !.valid = FALSE]

Text(x, y, text, font, alignment, vertical_alignment, transform) ==
    [x |-> x, y |-> y, text |-> text, size |-> R(16), color |-> Green, font |-> font,
     alignment |-> alignment, vertical_alignment |-> vertical_alignment,
     transform |-> transform, glyph_transform |-> None]

Texts ==
    {Text(R(0), R(0), <<"A", "B">>, GoodFont, "Center", "Top", Scale2),
     Text(R(1), R(0), <<"A", Newline, "?">>, GoodFont, "Right", "Bottom", AffineIdentity),
     Text(R(0), R(0), <<"A">>, BrokenFont, "Left", "Middle", AffineIdentity)}

Prerendereds ==
    {[scene |-> [encoding |-> <<[op |-> "fill"]>>, n_open_clips |-> 0],
      transform |-> Scale2]}

LayerCalls ==
    {CallStartLayer("Normal", "SourceOver", Circle(R(5)), AffineIdentity, None, R(1)),
     CallStartLayer("Multiply", "SourceIn", UnitRect, Scale2, None, Frac(1, 2)),
     CallStartLayer("Clip", "Copy", UnitRect, AffineIdentity, Some(Scale2), R(1))}

ContentFns ==
    {<<>>,
     <<CallGeom(SolidFill)>>,
     <<CallStartLayer("Clip", "Xor", UnitRect, AffineIdentity, None, R(1)),
       CallGeom(SolidStroke), CallEndLayer>>}

MaskFns == {<<CallGeom(GradientFill)>>, <<CallEndLayer>>}

MaskClips == {Circle(R(7))}

MaskClipTransforms == {Scale2}

\* Odd sizes, so that the halves are not whole numbers.
SceneSizes == {<<3, 5>>}

Init ==
    /\ \E size \in SceneSizes : scene = Scene_new(Red, size[1], size[2])
    /\ prevScene = scene
    /\ status = "building"
    /\ lastCall = NoCall
    /\ ncalls = 0
    /\ GradIdle
    /\ ImgIdle
    /\ GpuIdle

\* One call on the scene with outcome r.
Call(c, r) ==
    /\ status = "building"
    /\ ncalls < MaxCalls
    /\ scene' = r.scene
    /\ prevScene' = scene
    /\ status' = IF r.panicked THEN "panicked" ELSE "building"
    /\ lastCall' = c
    /\ ncalls' = ncalls + 1
    /\ UNCHANGED <<gradIn, gradOut, imgIn, imgOut, images, device>>

DrawGeom == \E g \in Geoms : Call(CallGeom(g), GeomDraw(scene, g))

DrawText == \E t \in Texts : Call(CallText(t), TextDraw(scene, t))

DrawPrerendered == \E p \in Prerendereds : Call(CallPrerendered(p), PrerenderedDraw(scene, p))

StartLayer == \E c \in LayerCalls : Call(c, ApplyCall(scene, c))

EndLayer == Call(CallEndLayer, end_layer(scene))

DrawAlphaMask ==
    \E content_fn \in ContentFns, mask_fn \in MaskFns,
       clip \in MaskClips, clip_transform \in MaskClipTransforms :
        Call([op |-> "draw_alpha_mask", content_fn |-> content_fn, mask_fn |-> mask_fn,
              clip |-> clip, clip_transform |-> clip_transform],
             draw_alpha_mask(scene, content_fn, mask_fn, clip, clip_transform))

\* VelloRenderer::render_to_surface: the scene's command stream and gpu
\* images are handed to the renderer as they are.
RenderToSurface ==
    /\ status = "building"
    /\ status' = "rendered"
    /\ UNCHANGED <<scene, prevScene, lastCall, ncalls, gradIn, gradOut, imgIn, imgOut, images, device>>

Next ==
    \/ DrawGeom
    \/ DrawText
    \/ DrawPrerendered
    \/ StartLayer
    \/ EndLayer
    \/ DrawAlphaMask
    \/ RenderToSurface

Spec == Init /\ [][Next]_vars

(***************************************************************************)
(* SpecText: one FormatedText drawn into a new scene, for every text of up *)
(* to MaxTextLen characters, starting position, alignment and font.        *)
(***************************************************************************)
Chars == {"A", "B", "?", Newline}

TextStarts == {R(0), R(1), R(3)}

Alignments == {"Left", "Center", "Right"}

VerticalAlignments == {"Top", "Middle", "Bottom"}

TextInputs ==
    {Text(x, y, text, font, alignment, vertical_alignment, AffineIdentity) :
        x \in TextStarts, y \in TextStarts, text \in SeqsUpTo(Chars, MaxTextLen),
        font \in {GoodFont, BrokenFont}, alignment \in Alignments,
        vertical_alignment \in VerticalAlignments}

DrawTextInput ==
    /\ ncalls = 0
    /\ \E t \in TextInputs : Call(CallText(t), TextDraw(scene, t))

NextText == DrawTextInput

SpecText == Init /\ [][NextText]_vars

(***************************************************************************)
(* Properties of Gradient::new_equidistant.                                *)
(***************************************************************************)

\* C1: for N >= 2 colors new_equidistant returns exactly N stops in input
\* order, stop i (0-based) having offset i/(N-1) and the color of input i;
\* the first offset is 0, the last is 1 and offsets strictly increase.
C1_EquidistantStops ==
    (gradOut.status = "returned" /\ Len(gradIn.colors) >= 2) =>
        LET stops == gradOut.value.stops
            N == Len(gradIn.colors)
        IN  /\ Len(stops) = N
            /\ \A i \in 1..N :
                 /\ stops[i].color = gradIn.colors[i]
                 /\ RMul(stops[i].offset, R(N - 1)) = R(i - 1)
            /\ stops[1].offset = R(0)
            /\ stops[N].offset = R(1)
            /\ \A i \in 1..(N - 1) : RLess(stops[i].offset, stops[i + 1].offset)

C1_Witness ==
    /\ gradOut.status = "returned"
    /\ Len(gradIn.colors) = 3
    /\ gradOut.value.stops[2].offset = Frac(1, 2)
    /\ gradIn.colors[1] # gradIn.colors[2]

\* C2: new_equidistant called with fewer than 2 colors ends in an error
\* outcome and never returns a Gradient value.
C2_FailsFast ==
    (gradOut # Pending /\ Len(gradIn.colors) < 2) => gradOut.status = "panicked"

(***************************************************************************)
(* Properties of Geom::new_image.                                          *)
(***************************************************************************)
Half(v) == RDiv(v, R(2))

\* C3: the shape of the Geom new_image returns is the rectangle with corners
\* (x - width/2, y - height/2) and (x + width/2, y + height/2): its centre is
\* (x, y) and its extent is exactly width by height, whatever the image size,
\* the object transform and the fit mode.
C3_ShapeCentered ==
    imgOut.status = "returned" =>
        LET s == imgOut.value.shape
        IN  /\ s.shape = "Rectangle"
            /\ RSub(s.b.x, s.a.x) = imgIn.width
            /\ RSub(s.b.y, s.a.y) = imgIn.height
            /\ Half(RAdd(s.a.x, s.b.x)) = imgIn.x
            /\ Half(RAdd(s.a.y, s.b.y)) = imgIn.y
            /\ RAdd(s.a.x, Half(imgIn.width)) = imgIn.x
            /\ RAdd(s.a.y, Half(imgIn.height)) = imgIn.y

C3_Witness ==
    /\ imgOut.status = "returned"
    /\ imgIn.x = R(2) /\ imgIn.y = R(-1)
    /\ imgIn.width = R(1) /\ imgIn.height = R(4)
    /\ imgIn.image.width # imgIn.image.height
    /\ imgIn.transform # AffineIdentity
    /\ imgIn.fit_mode = "Original"
    /\ imgOut.value.shape.a = Point(Frac(3, 2), R(-3))

ImageCorners(image) ==
    {Point(R(cx), R(cy)) : cx \in {0, image.width}, cy \in {0, image.height}}

RectCorners(s) == {Point(px, py) : px \in {s.a.x, s.b.x}, py \in {s.a.y, s.b.y}}

\* C4: under fit mode Fill the brush_transform maps the four corners of the
\* image onto the four corners of the target rectangle, for every image size
\* and every target centre and size.
C4_BrushCornersOnRect ==
    (imgOut.status = "returned" /\ imgIn.fit_mode = "Fill") =>
        LET g == imgOut.value
            bt == g.brush_transform.value
        IN  /\ g.brush_transform.some
            /\ AffineApply(bt, Point(R(0), R(0))) = g.shape.a
            /\ AffineApply(bt, Point(R(imgIn.image.width), R(imgIn.image.height)))
                  = g.shape.b
            /\ {AffineApply(bt, c) : c \in ImageCorners(imgIn.image)}
                  = RectCorners(g.shape)

(***************************************************************************)
(* Properties of the scene and its layer stack.                            *)
(***************************************************************************)
Enc(s) == s.backend.vello_scene.encoding

Depth(s) == s.backend.vello_scene.n_open_clips

\* The most recent call was op and it is the call that led to this state.
Called(op) == ncalls > 0 /\ lastCall.op = op

\* C5: start_layer with a present layer_transform ends in a fatal error and
\* pushes no layer: command stream and layer depth are as before the call,
\* and the call does not return normally.
C5_LayerTransformIsFatal ==
    (Called("start_layer") /\ lastCall.layer_transform.some) =>
        /\ status = "panicked"
        /\ Enc(scene) = Enc(prevScene)
        /\ Depth(scene) = Depth(prevScene)
        /\ scene = prevScene

C5_Witness ==
    /\ Called("start_layer")
    /\ lastCall.layer_transform.some
    /\ status = "panicked"
    /\ Depth(scene) = 1
    /\ Len(Enc(scene)) = 2

\* What a closure emits when run on scene s.
EmittedBy(s, calls) ==
    LET after == Enc(RunCalls(s, calls).scene)
    IN  SubSeq(after, Len(Enc(s)) + 1, Len(after))

NumCalls(calls, op) == Cardinality({i \in 1..Len(calls) : calls[i].op = op})

Balanced(calls) == NumCalls(calls, "start_layer") = NumCalls(calls, "end_layer")

IsPush(cmd, mix, compose, clip) ==
    /\ cmd.op = "push_layer"
    /\ cmd.blend = <<mix, compose>>
    /\ cmd.clip = clip

\* The scene s after the commands cmds, leaving depth layers open.
WithStream(s, cmds, depth) ==
    [s EXCEPT !.backend.vello_scene = [encoding |-> cmds, n_open_clips |-> depth]]

\* C6: draw_alpha_mask emits exactly: push (Normal, SourceOver, clip); what
\* content_fn draws; push (Multiply, SourceIn, the same clip); what mask_fn
\* draws; pop; pop.  With balanced closures the layer depth is restored.
C6_AlphaMaskSequence ==
    (Called("draw_alpha_mask") /\ status # "panicked") =>
        LET before == Enc(prevScene)
            after == Enc(scene)
            n == Len(before)
            afterOuter == WithStream(prevScene, SubSeq(after, 1, n + 1),
                                     Depth(prevScene) + 1)
            content == EmittedBy(afterOuter, lastCall.content_fn)
            k == n + 1 + Len(content)
            afterContent == RunCalls(afterOuter, lastCall.content_fn).scene
            afterInner == WithStream(afterContent, SubSeq(after, 1, k + 1),
                                     Depth(afterContent) + 1)
            mask == EmittedBy(afterInner, lastCall.mask_fn)
            m == k + 1 + Len(mask)
        IN  /\ Len(after) = m + 2
            /\ SubSeq(after, 1, n) = before
            /\ IsPush(after[n + 1], "Mix::Normal", "Compose::SrcOver", lastCall.clip)
            /\ SubSeq(after, n + 2, k) = content
            /\ IsPush(after[k + 1], "Mix::Multiply", "Compose::SrcIn", lastCall.clip)
            /\ SubSeq(after, k + 2, m) = mask
            /\ after[m + 1] = [op |-> "pop_layer"]
            /\ after[m + 2] = [op |-> "pop_layer"]
            /\ (Balanced(lastCall.content_fn) /\ Balanced(lastCall.mask_fn))
                  => Depth(scene) = Depth(prevScene)

\* C7: a scene with a non-zero layer depth never reaches render_to_surface
\* without an error having been raised.
C7_ImbalanceDetected == status = "rendered" => Depth(scene) = 0

\* C8: end_layer with no layer pushed ends in a fatal assertion; it is not a
\* silent no-op and appends no pop command.
C8_EndLayerUnderflowFatal ==
    (Called("end_layer") /\ Depth(prevScene) = 0) =>
        /\ status = "panicked"
        /\ Enc(scene) = Enc(prevScene)

\* Child (local) transform first, the scene's global transform last.
LocalThenGlobal(s, local) == AffineMul(s.backend.global_transform, local)

LastCmd(s) == Enc(s)[Len(Enc(s))]

\* C9: Geom draw, start_layer, FormatedText draw and PrerenderedScene draw all
\* compose local and global transform in the same order, local first.
C9_UniformCompositionOrder ==
    (ncalls > 0 /\ status # "panicked") =>
        CASE lastCall.op = "draw_geom" ->
                LastCmd(scene).transform = LocalThenGlobal(prevScene, lastCall.geom.transform)
          [] lastCall.op = "start_layer" ->
                LastCmd(scene).transform = LocalThenGlobal(prevScene, lastCall.clip_transform)
          [] lastCall.op = "draw_text" ->
                LastCmd(scene).transform =
                    AffineMul(LocalThenGlobal(prevScene, lastCall.text.transform),
                              TextCorrection(lastCall.text))
          [] lastCall.op = "draw_prerendered" ->
                LastCmd(scene).transform =
                    Some(LocalThenGlobal(prevScene, lastCall.prerendered.transform))
          [] OTHER -> TRUE

\* C10: drawing a Geom with an image brush and style Stroke ends in a fatal
\* error and emits no stroke primitive; with style Fill it emits exactly one
\* fill primitive.
C10_ImageStrokeFatal ==
    (Called("draw_geom") /\ lastCall.geom.brush.brush = "Image") =>
        IF lastCall.geom.style.style = "Stroke"
        THEN (status = "panicked" /\ Enc(scene) = Enc(prevScene))
        ELSE (/\ status # "panicked"
              /\ Len(Enc(scene)) = Len(Enc(prevScene)) + 1
              /\ SubSeq(Enc(scene), 1, Len(Enc(prevScene))) = Enc(prevScene)
              /\ LastCmd(scene).op = "fill")

(***************************************************************************)
(* Properties of the GPU textures of images.                               *)
(***************************************************************************)
OnGpu == {id \in DOMAIN images : images[id].gpu_texture.some}

\* C11: the GPU texture of an image is created at most once per image: only
\* the first to_gpu call on an image creates a texture, later calls reuse it,
\* so the device never holds more textures than there are images on the GPU.
C11_TextureCreatedOnce == Len(device) <= Cardinality(OnGpu)

(***************************************************************************)
(* Properties of text layout.                                              *)
(***************************************************************************)
\* The glyphs the most recent call emitted.
EmittedGlyphs ==
    IF Len(Enc(scene)) > Len(Enc(prevScene)) THEN LastCmd(scene).glyphs ELSE <<>>

IsGlyphChar(ch) == ch # Newline

GlyphChars(text) == SelectSeq(text, IsGlyphChar)

\* C12: drawing a FormatedText whose font data cannot be parsed ends in a
\* fatal error before anything is emitted: the scene is as it was.
C12_BrokenFontFatalBeforeEmit ==
    (Called("draw_text") /\ ~lastCall.text.font.valid) =>
        /\ status = "panicked"
        /\ Enc(scene) = Enc(prevScene)
        /\ scene = prevScene

C12_Witness ==
    /\ Called("draw_text")
    /\ ~lastCall.text.font.valid
    /\ lastCall.text.text = <<"A", "B">>
    /\ status = "panicked"
    /\ Enc(scene) = <<>>

\* C13: a character with no glyph mapping is not an error: it gets glyph id
\* 0, is emitted at the pen position like any other glyph, and the draw
\* completes; the glyph count is the number of non-newline characters.
C13_MissingGlyphIsDefault ==
    (Called("draw_text") /\ lastCall.text.font.valid) =>
        LET t == lastCall.text
            chars == GlyphChars(t.text)
            g == EmittedGlyphs
        IN  /\ status = "building"
            /\ Len(g) = Len(chars)
            /\ \A k \in 1..Len(chars) :
                 g[k].id = (IF chars[k] \in DOMAIN t.font.charmap
                            THEN t.font.charmap[chars[k]] ELSE 0)
            /\ \A i \in 1..(Len(t.text) - 1) :
                 (IsGlyphChar(t.text[i]) /\ IsGlyphChar(t.text[i + 1])) =>
                    LET k == Len(GlyphChars(SubSeq(t.text, 1, i)))
                    IN  /\ g[k + 1].x = RAdd(g[k].x, t.font.advance[g[k].id])
                        /\ g[k + 1].y = g[k].y

C13_Witness ==
    /\ Called("draw_text")
    /\ lastCall.text.font.valid
    /\ lastCall.text.text = <<"?", "A", "?">>
    /\ lastCall.text.x = R(0)
    /\ status = "building"
    /\ Len(EmittedGlyphs) = 3
    /\ EmittedGlyphs[1].id = 0
    /\ EmittedGlyphs[2] = [id |-> 1, x |-> R(5), y |-> RMul(lastCall.text.y, R(2))]
    /\ EmittedGlyphs[3].id = 0

\* The sum of the advances of the first k characters of a single-line text.
RECURSIVE SumAdvances(_, _, _)
SumAdvances(font, text, k) ==
    IF k = 0 THEN R(0)
    ELSE RAdd(SumAdvances(font, text, k - 1),
              AdvanceWidth(font, GlyphId(font, text[k])))

\* C14: for single-line text drawn at any starting position (x, y), glyph k
\* is emitted at horizontal position a_1 + ... + a_(k-1) (the first at 0), the
\* total width is a_1 + ... + a_n, and the horizontal correction is 0 for
\* Left, -width/2 for Center and -width for Right; for "AB" with advances
\* (10, 12) and Center: positions 0 and 10, correction -11.
C14_SingleLinePositions ==
    (/\ Called("draw_text")
     /\ lastCall.text.font.valid
     /\ \A i \in 1..Len(lastCall.text.text) : IsGlyphChar(lastCall.text.text[i])) =>
        LET t == lastCall.text
            n == Len(t.text)
            width == SumAdvances(t.font, t.text, n)
            g == EmittedGlyphs
        IN  /\ Len(g) = n
            /\ \A k \in 1..n : g[k].x = SumAdvances(t.font, t.text, k - 1)
            /\ TextLayout(t).pen_x = width
            /\ TextCorrection(t)[5] =
                  (CASE t.alignment = "Left" -> R(0)
                     [] t.alignment = "Center" -> RDiv(RNeg(width), R(2))
                     [] t.alignment = "Right" -> RNeg(width))
            /\ (t.text = <<"A", "B">> /\ t.alignment = "Center") =>
                  /\ g[1].x = R(0)
                  /\ g[2].x = R(10)
                  /\ TextCorrection(t)[5] = R(-11)

NewlinesBefore(text, i) == Cardinality({j \in 1..(i - 1) : text[j] = Newline})

\* C15: a newline emits no glyph, resets the horizontal pen to 0 and advances
\* the vertical pen by line_height = ascent - descent + leading: the first
\* glyph after the k-th newline is at horizontal position 0 and at vertical
\* position start_y + k * line_height, start_y being where the pen starts.
C15_NewlineAdvancesLine ==
    (Called("draw_text") /\ lastCall.text.font.valid) =>
        LET t == lastCall.text
            line_height == RAdd(RSub(t.font.ascent, t.font.descent), t.font.leading)
            start_y == PenStart(t).y
            g == EmittedGlyphs
        IN  /\ Len(g) = Len(t.text) - NewlinesBefore(t.text, Len(t.text) + 1)
            /\ \A i \in 1..Len(t.text) :
                 IsGlyphChar(t.text[i]) =>
                    LET k == NewlinesBefore(t.text, i)
                        glyph == g[i - k]
                    IN  /\ glyph.y = RAdd(start_y, RMul(R(k), line_height))
                        /\ (i > 1 /\ t.text[i - 1] = Newline) => glyph.x = R(0)

C15_Witness ==
    /\ Called("draw_text")
    /\ lastCall.text.font.valid
    /\ lastCall.text.text = <<Newline, Newline, "B">>
    /\ lastCall.text.x = R(1)
    /\ lastCall.text.y = R(3)
    /\ status = "building"
    /\ EmittedGlyphs = <<[id |-> 2, x |-> R(0), y |-> R(28)]>>

(***************************************************************************)
(* Properties of the lowering of Geoms and layers.                         *)
(***************************************************************************)
\* The most recent call appended exactly the commands cmds.
Appended(cmds) == Enc(scene) = Enc(prevScene) \o cmds

\* C16: drawing a Geom appends exactly one primitive, a fill for style Fill
\* and a stroke for style Stroke, under global_transform * transform, with
\* the Geom's brush_transform passed through as it is (absent stays absent).
C16_GeomOnePrimitive ==
    Called("draw_geom") =>
        LET geom == lastCall.geom
            cmd == LastCmd(scene)
        IN  /\ status # "panicked"
            /\ Appended(<<cmd>>)
            /\ cmd.op = (IF geom.style.style = "Fill" THEN "fill" ELSE "stroke")
            /\ cmd.transform = AffineMul(prevScene.backend.global_transform, geom.transform)
            /\ \A p \in {Point(R(0), R(0)), Point(R(1), R(0)), Point(R(0), R(1))} :
                 AffineApply(cmd.transform, p) =
                    AffineApply(prevScene.backend.global_transform,
                                AffineApply(geom.transform, p))
            /\ cmd.brush_transform = geom.brush_transform
            /\ cmd.shape = geom.shape

C16_Witness ==
    /\ Called("draw_geom")
    /\ ncalls = 2
    /\ Len(Enc(prevScene)) = 1
    /\ lastCall.geom.transform = Scale2
    /\ lastCall.geom.brush_transform = Some(AffineTranslate(R(1), R(0)))
    /\ LastCmd(scene).op = "fill"
    /\ LastCmd(scene).brush_transform = Some(AffineTranslate(R(1), R(0)))
    /\ Len(Enc(scene)) = 2

\* C17: start_layer without a layer transform pushes exactly one layer with
\* the given mix mode, composite mode and alpha and the clip transform
\* global_transform * clip_transform; end_layer pops exactly the most recent
\* layer; so every start_layer raises the layer depth by one and every
\* end_layer lowers it by one (depth = start_layer calls - end_layer calls).
C17_LayerDepthCounts ==
    /\ (Called("start_layer") /\ ~lastCall.layer_transform.some) =>
          LET cmd == LastCmd(scene)
          IN  /\ status # "panicked"
              /\ Appended(<<cmd>>)
              /\ cmd.op = "push_layer"
              /\ cmd.blend = <<MixToVello(lastCall.mix_mode),
                               ComposeToVello(lastCall.composite_mode)>>
              /\ cmd.alpha = lastCall.alpha
              /\ cmd.clip = lastCall.clip
              /\ cmd.transform = AffineMul(prevScene.backend.global_transform,
                                           lastCall.clip_transform)
              /\ Depth(scene) = Depth(prevScene) + 1
    /\ Called("end_layer") =>
          /\ status # "panicked"
          /\ Appended(<<[op |-> "pop_layer"]>>)
          /\ Depth(scene) = Depth(prevScene) - 1

\* C18: a scene created with Scene::new(background, width, height) has
\* global_transform = translate(width/2, height/2) in every reachable state:
\* no call changes global_transform, background_color, width or height.
C18_GlobalTransformFixed ==
    /\ scene.backend.global_transform =
          <<R(1), R(0), R(0), R(1), Frac(scene.width, 2), Frac(scene.height, 2)>>
    /\ AffineApply(scene.backend.global_transform, Point(R(0), R(0))) =
          Point(Frac(scene.width, 2), Frac(scene.height, 2))
    /\ scene.backend.global_transform = prevScene.backend.global_transform
    /\ scene.background_color = prevScene.background_color
    /\ scene.width = prevScene.width
    /\ scene.height = prevScene.height
    /\ <<scene.width, scene.height>> \in SceneSizes

C18_Witness ==
    /\ ncalls = 3
    /\ <<scene.width, scene.height>> = <<3, 5>>
    /\ scene.backend.global_transform = AffineTranslate(Frac(3, 2), Frac(5, 2))
    /\ Depth(scene) = 1
    /\ Len(Enc(scene)) = 3
    /\ \E i \in 1..3 : Enc(scene)[i].op = "draw_glyphs"
    /\ \E i \in 1..3 : Enc(scene)[i].op = "fill"

\* C19: when a Geom with style Stroke is lowered, the stroke handed to the
\* backend carries every field of the style: width, join, miter_limit,
\* start_cap, end_cap, dash_pattern and dash_offset are those of the style.
C19_StrokeFieldsCarried ==
    (Called("draw_geom") /\ lastCall.geom.style.style = "Stroke") =>
        LET style == lastCall.geom.style
            stroke == LastCmd(scene).style
        IN  /\ LastCmd(scene).op = "stroke"
            /\ stroke.width = style.width
            /\ stroke.join = style.join
            /\ stroke.miter_limit = style.miter_limit
            /\ stroke.start_cap = style.start_cap
            /\ stroke.end_cap = style.end_cap
            /\ stroke.dash_pattern = style.dash_pattern
            /\ stroke.dash_offset = style.dash_offset

(***************************************************************************)
(* Properties of the lowering of gradients.                                *)
(***************************************************************************)
SameExtend(extend, lowered) ==
    <<extend, lowered>> \in {<<"Pad", "Extend::Pad">>, <<"Repeat", "Extend::Repeat">>,
                              <<"Reflect", "Extend::Reflect">>}

SameKind(kind, lowered) ==
    /\ <<kind.kind, lowered.kind>> \in {<<"Linear", "GradientKind::Linear">>,
                                         <<"Radial", "GradientKind::Radial">>,
                                         <<"Sweep", "GradientKind::Sweep">>}
    /\ [f \in DOMAIN kind \ {"kind"} |-> kind[f]] =
          [f \in DOMAIN lowered \ {"kind"} |-> lowered[f]]

\* The color an 8-bit backend color stands for.
ColorOf(c8) == RGBA(Frac(c8.r, 255), Frac(c8.g, 255), Frac(c8.b, 255), Frac(c8.a, 255))

\* Number, order and offsets of the stops, extend mode and kind survive.
StopsKept ==
    LET gradient == gradIn.gradient
        lowered == gradOut.value
    IN  /\ Len(lowered.stops) = Len(gradient.stops)
        /\ \A i \in 1..Len(gradient.stops) :
             lowered.stops[i].offset = gradient.stops[i].offset
        /\ SameExtend(gradient.extend, lowered.extend)
        /\ SameKind(gradient.kind, lowered.kind)

\* C20 (as stated): lowering a Gradient is lossless: same number of stops, in
\* the same order, with the same offsets and colors, same extend mode and
\* kind, for every stop list (unsorted and duplicate offsets included).
C20_LoweringLossless ==
    gradOut.status = "returned" =>
        /\ StopsKept
        /\ \A i \in 1..Len(gradIn.gradient.stops) :
             ColorOf(gradOut.value.stops[i].color) = gradIn.gradient.stops[i].color

\* A channel that an 8-bit channel holds exactly: a multiple of 1/255 in
\* [0, 1].
IsChannel8Value(v) ==
    /\ IsFinite(v)
    /\ ~RLess(v, R(0))
    /\ ~RLess(R(1), v)
    /\ (255 * v[1]) % v[2] = 0

\* The distance between two finite channels is at most 1/510.
WithinHalfStep(v, w) ==
    /\ ~RLess(Frac(1, 510), RSub(v, w))
    /\ ~RLess(Frac(1, 510), RSub(w, v))

\* C20 (amended): lowering keeps number, order and offsets of the stops, the
\* extend mode and the kind.  The color of each stop is stored with 8 bits
\* per channel: a channel that is NaN or below 0 is stored as 0, a channel
\* above 1 as 255, and a channel in [0, 1] as the nearest multiple of 1/255
\* (within 1/510 of it).  The stored channel is the stop's channel exactly
\* when that channel is a multiple of 1/255 in [0, 1].
C20_LoweringKeepsStops ==
    gradOut.status = "returned" =>
        /\ StopsKept
        /\ \A i \in 1..Len(gradIn.gradient.stops) :
             LET color == gradIn.gradient.stops[i].color
                 stored == gradOut.value.stops[i].color
                 back == ColorOf(stored)
             IN  \A ch \in {"r", "g", "b", "a"} :
                    /\ stored[ch] \in 0..255
                    /\ (color[ch] = NaN \/ RLess(color[ch], R(0))) => stored[ch] = 0
                    /\ RLess(R(1), color[ch]) => stored[ch] = 255
                    /\ (~RLess(color[ch], R(0)) /\ ~RLess(R(1), color[ch]) /\ color[ch] # NaN)
                          => WithinHalfStep(back[ch], color[ch])
                    /\ (back[ch] = color[ch]) <=> IsChannel8Value(color[ch])

C20_Witness ==
    /\ gradOut.status = "returned"
    /\ gradIn.gradient.kind = SweepKind
    /\ gradOut.value.kind.kind = "GradientKind::Sweep"
    /\ Len(gradIn.gradient.stops) = 3
    /\ gradIn.gradient.stops[1].offset = Frac(3, 2)
    /\ gradIn.gradient.stops[2].offset = R(0)
    /\ gradIn.gradient.stops[3].offset = R(0)
    /\ gradIn.gradient.stops[1].color = HalfGrey
    /\ gradIn.gradient.stops[2].color = OutOfRange
    /\ gradIn.gradient.stops[3].color = Fine
    /\ gradOut.value.stops[1] = [offset |-> Frac(3, 2),
                                 color |-> [r |-> 128, g |-> 128, b |-> 128, a |-> 255]]
    /\ gradOut.value.stops[2] = [offset |-> R(0),
                                 color |-> [r |-> 255, g |-> 0, b |-> 0, a |-> 255]]
    /\ gradOut.value.stops[3] = [offset |-> R(0),
                                 color |-> [r |-> 64, g |-> 36, b |-> 51, a |-> 254]]

(***************************************************************************)
(* Properties of the command stream and of the list of GPU images.         *)
(***************************************************************************)
IsPrefix(a, b) == Len(a) <= Len(b) /\ SubSeq(b, 1, Len(a)) = a

\* C21: the command stream is append-only and in call order: every call
\* leaves the commands of the earlier calls as they were, in place, and adds
\* its own after them, so the stream is the concatenation, in call order, of
\* what each call emitted.
C21_StreamAppendOnly ==
    /\ IsPrefix(Enc(prevScene), Enc(scene))
    /\ (ncalls = 0) => Enc(scene) = <<>>
    /\ (ncalls > 0 /\ lastCall.op \in {"draw_geom", "draw_prerendered"}) =>
          Len(Enc(scene)) = Len(Enc(prevScene)) + 1
    /\ (Called("start_layer") /\ status # "panicked") =>
          (/\ Len(Enc(scene)) = Len(Enc(prevScene)) + 1
           /\ LastCmd(scene).op = "push_layer")
    /\ Called("end_layer") =>
          Enc(scene) \in {Enc(prevScene), Append(Enc(prevScene), [op |-> "pop_layer"])}

C21_Witness ==
    /\ ncalls = 3
    /\ Called("draw_alpha_mask")
    /\ Len(Enc(prevScene)) = 2
    /\ Enc(prevScene)[1].op = "draw_glyphs"
    /\ Enc(prevScene)[2].op = "append"
    /\ Len(Enc(scene)) = 9
    /\ Enc(scene)[9].op = "pop_layer"
    /\ SubSeq(Enc(scene), 1, 2) = Enc(prevScene)

GpuImages(s) == s.backend.gpu_images

\* The Geom is drawn with an image that has a texture on the GPU.
DrawsGpuImage(geom) == geom.brush.brush = "Image" /\ geom.brush.image.gpu_texture.some

\* The draws of GPU-resident images among the calls of a closure.
NumGpuDraws(calls) ==
    Cardinality({i \in 1..Len(calls) :
                    calls[i].op = "draw_geom" /\ DrawsGpuImage(calls[i].geom)})

\* C22: gpu_images grows by exactly one entry on each draw of a Geom whose
\* brush is an image with a GPU texture, and is left as it is by every other
\* operation; entries are never removed or de-duplicated, so k draws of the
\* same GPU-resident image leave k entries.
C22_GpuImagesGrowByOne ==
    /\ IsPrefix(GpuImages(prevScene), GpuImages(scene))
    /\ (ncalls = 0) => GpuImages(scene) = <<>>
    /\ (Called("draw_geom") /\ DrawsGpuImage(lastCall.geom)) =>
          LET image == lastCall.geom.brush.image
              entry == GpuImages(scene)[Len(GpuImages(scene))]
          IN  /\ Len(GpuImages(scene)) = Len(GpuImages(prevScene)) + 1
              /\ entry[1].width = image.width
              /\ entry[1].height = image.height
              /\ entry[1].data = image.data
              /\ entry[2] = image.gpu_texture.value
    /\ (Called("draw_geom") /\ ~DrawsGpuImage(lastCall.geom)) =>
          GpuImages(scene) = GpuImages(prevScene)
    /\ (ncalls > 0 /\ lastCall.op \in {"draw_text", "draw_prerendered", "start_layer",
                                         "end_layer"}) =>
          GpuImages(scene) = GpuImages(prevScene)
    /\ (Called("draw_alpha_mask") /\ status # "panicked") =>
          Len(GpuImages(scene)) =
             Len(GpuImages(prevScene))
                + NumGpuDraws(lastCall.content_fn) + NumGpuDraws(lastCall.mask_fn)

C22_Witness ==
    /\ ncalls = 3
    /\ status = "rendered"
    /\ Len(GpuImages(scene)) = 3
    /\ GpuImages(scene)[1] = GpuImages(scene)[2]
    /\ GpuImages(scene)[2] = GpuImages(scene)[3]
    /\ Len(Enc(scene)) = 3
    /\ \A i \in 1..3 : Enc(scene)[i].op = "fill"

====
